---------------------------- MODULE Spec2Model ----------------------------
(***************************************************************************)
(* Model of the dataset-construction pipeline of DLT-perf-model            *)
(* (src/data/dataset.py): MDataset and its two variants, the memoized      *)
(* graph loader, DatasetFactory.create_dataset with its caches,            *)
(* MDataset.__getitem__ and MDataset.data_collator.                        *)
(*                                                                         *)
(* Python values are modelled as follows.  A dict is a function whose      *)
(* DOMAIN is its key set; a list is a sequence; an object with identity    *)
(* (a graph list, a dataset) carries an id; an exception is an outcome     *)
(* string.  Feature vectors are one-dimensional (a number).                *)
(***************************************************************************)
EXTENDS Integers, Sequences, FiniteSets, TLC

VARIABLES
    graphs_cache,      \* DatasetFactory.graphs_cache : key -> graph list object
    load_graphs_lru,   \* lru_cache of _load_graphs   : <<env, split, dummy>> -> graph list object
    creator_lru,       \* lru_caches of the three creators : <<kind, key, normalization, kwargs>> -> dataset id
    datasets,          \* the heap of constructed datasets; a dataset's id is its index
    built,             \* history: each dataset as it was when its constructor returned
    ncalls,            \* number of create_dataset calls made so far
    load_body_runs,    \* history: <<env, split, dummy>> -> times the body of _load_graphs ran
    load_when_cached,  \* history: _load_graphs was invoked for a key already in graphs_cache
    creator_body_runs, \* history: <<kind, key, normalization, kwargs>> -> times the creator's body ran
    creator_body_done, \* history: same key -> times the creator's body ran to its return
    inits,             \* history: the constructions attempted, each with its outcome
    returns,           \* history: the (arguments, train id, val id) of every call that returned
    lastGet,           \* the last __getitem__ call: dataset, index, outcome and item
    samples,           \* the list of samples a reader gathered for data_collator
    batch              \* the last result of data_collator

vars == <<graphs_cache, load_graphs_lru, creator_lru, datasets, built, ncalls,
          load_body_runs, load_when_cached, creator_body_runs, creator_body_done,
          inits, returns, lastGet, samples, batch>>

factoryVars == <<graphs_cache, load_graphs_lru, creator_lru, datasets, built, ncalls,
                 load_body_runs, load_when_cached, creator_body_runs, creator_body_done,
                 inits, returns>>

readerVars == <<lastGet, samples, batch>>

---------------------------------------------------------------------------
(* Bounds of the model *)

\* create_dataset calls explored
MaxCalls == 2
\* graphs in a dummy graph list (the source builds 100 placeholders)
DummyGraphCount == 2
\* samples handed to data_collator
MaxBatch == 2

\* environments (opaque to the pipeline; only formatted into keys)
Envs == {"T4"}
\* what the external placeholder-graph constructor may produce for one load
DummySeeds == {0, 1}

---------------------------------------------------------------------------
(* Generic helpers for Python lists and dicts *)

Range(s) == {s[i] : i \in DOMAIN s}

Min(a, b) == IF a < b THEN a ELSE b

RECURSIVE SumSeq(_)
SumSeq(s) == IF s = << >> THEN 0 ELSE s[1] + SumSeq(Tail(s))

\* list.extend over a list of lists, in order
RECURSIVE Concat(_)
Concat(ss) == IF ss = << >> THEN << >> ELSE ss[1] \o Concat(Tail(ss))

\* d[k] = v on a dict
DictSet(d, k, v) == [x \in DOMAIN d \cup {k} |-> IF x = k THEN v ELSE d[x]]

EmptyDict == << >>

\* v is evaluated once and its value handed to F (a local name for a value)
Bind(v, F(_)) == CHOOSE r \in {F(x) : x \in {v}} : TRUE

---------------------------------------------------------------------------
(* The Feature Key Registry (data/graph.py, FeatureKeys) *)

X_OP_FEAT == "x_op_feat"
X_SUBGRAPH_FEAT == "x_subgraph_feat"
Y_OP_FEAT == "y_op_feat"
Y_SUBGRAPH_FEAT == "y_subgraph_feat"
X_ID == "x_id"
Y_ID == "y_id"
FEAT_SUFFIX == "_feat"

\* k.endswith(FeatureKeys.FEAT_SUFFIX)
EndsWithFeatSuffix(k) ==
    \E p \in {"x_op", "x_subgraph", "y_op", "y_subgraph"} : k = p \o FEAT_SUFFIX

---------------------------------------------------------------------------
(* Graphs and their feature extraction (data/graph.py, external)           *)
(* A graph is [ID, nodes]: nodes is the list of per-node feature values.   *)
(* A float is kept exactly as [num, den_sq], standing for                   *)
(* num / sqrt(den_sq); a raw value v is [num |-> v, den_sq |-> 1].          *)

Num(v) == [num |-> v, den_sq |-> 1]

\* Graph.from_data(None, dummy=True): the i-th placeholder of a load
DummyGraph(i, seed) ==
    [ID |-> i,
     nodes |-> [j \in 1..((i + seed) % (DummyGraphCount + 1)) |-> i + j]]

\* graph.Serial_feature_extractor.node_features(): one (x, y) per operator
NodeX(g) == [j \in DOMAIN g.nodes |-> (X_ID :> g.ID) @@ (X_OP_FEAT :> Num(g.nodes[j]))]
NodeY(g) == [j \in DOMAIN g.nodes |-> (Y_ID :> g.ID) @@ (Y_OP_FEAT :> <<Num(2 * g.nodes[j])>>)]

\* the nodes of a graph cut into groups of `size` consecutive nodes
Chunks(nodes, size) ==
    LET n == Len(nodes)
        c == (n + size - 1) \div size
    IN  [j \in 1..c |-> SubSeq(nodes, (j - 1) * size + 1, Min(j * size, n))]

\* a list of node values as a fixed-shape list of `size` vectors, zero-padded
Pad(vals, size) == [i \in 1..size |-> IF i <= Len(vals) THEN Num(vals[i]) ELSE Num(0)]

\* graph.Serial_feature_extractor.subgraph_features(subgraph_node_size):
\* one (x, y) per group of subgraph_node_size nodes
SubgraphX(g, size) ==
    LET ch == Chunks(g.nodes, size)
    IN  [j \in DOMAIN ch |-> (X_ID :> g.ID) @@ (X_SUBGRAPH_FEAT :> Pad(ch[j], size))]
SubgraphY(g, size) ==
    LET ch == Chunks(g.nodes, size)
    IN  [j \in DOMAIN ch |->
            (Y_ID :> g.ID) @@ (Y_SUBGRAPH_FEAT :> Num(SumSeq(ch[j])))
                           @@ (Y_OP_FEAT :> Pad([i \in DOMAIN ch[j] |-> 2 * ch[j][i]], size))]

\* graph.GNN_based_feature_extractor.full_graph_feature(subgraph_count):
\* one (x, y) for the whole graph, with subgraph_count vectors
FullGraphX(g, cnt) == (X_ID :> g.ID) @@ (X_SUBGRAPH_FEAT :> Pad(g.nodes, cnt))
FullGraphY(g, cnt) == (Y_ID :> g.ID) @@ (Y_SUBGRAPH_FEAT :> Num(SumSeq(g.nodes)))

---------------------------------------------------------------------------
(* sklearn.preprocessing scalers, as the dataset uses them *)

RECURSIVE MinSeq(_)
MinSeq(s) == IF Len(s) = 1 THEN s[1] ELSE Min(s[1], MinSeq(Tail(s)))

RECURSIVE MaxSeq(_)
MaxSeq(s) == IF Len(s) = 1 THEN s[1] ELSE -Min(-s[1], -MaxSeq(Tail(s)))

NoScaler == [cls |-> "none", n |-> 0, sum |-> 0, sumsq |-> 0, lo |-> 0, hi |-> 0]

\* scaler = scaler_class(); scaler.fit(pool)   (pool: a non-empty list of raw values)
Fit(scaler_class, pool) ==
    LET v == [i \in DOMAIN pool |-> pool[i].num]
    IN  [cls   |-> scaler_class,
         n     |-> Len(v),
         sum   |-> SumSeq(v),
         sumsq |-> SumSeq([i \in DOMAIN v |-> v[i] * v[i]]),
         lo    |-> MinSeq(v),
         hi    |-> MaxSeq(v)]

\* the fitted scaler applied to one raw value:
\*   StandardScaler: (v - mean) / std, std = 1 when the variance is 0
\*   MinMaxScaler:   (v - min) / (max - min), the range = 1 when it is 0
ScalerApply(S, v) ==
    IF S.cls = "StandardScaler"
    THEN LET d == S.n * S.sumsq - S.sum * S.sum
         IN  [num |-> S.n * v.num - S.sum, den_sq |-> IF d = 0 THEN S.n * S.n ELSE d]
    ELSE LET r == S.hi - S.lo
         IN  [num |-> v.num - S.lo, den_sq |-> IF r = 0 THEN 1 ELSE r * r]

\* the three shapes of a per-key transform function
IdentityFn == [kind |-> "identity", scaler |-> NoScaler]
ScalerFn(S) == [kind |-> "scaler", scaler |-> S]
MapFn(S) == [kind |-> "map", scaler |-> S]

\* calling a per-key transform function on a value
ApplyFn(f, v) ==
    CASE f.kind = "identity" -> v
      [] f.kind = "scaler"   -> ScalerApply(f.scaler, v)
      [] f.kind = "map"      -> [i \in DOMAIN v |-> ScalerApply(f.scaler, v[i])]

---------------------------------------------------------------------------
(* Normalizer (data/util.py) and the dataset's normalizer attribute *)

None == [type |-> "None", x_scaler_dict |-> EmptyDict, y_scaler_dict |-> EmptyDict]
CustomCallable == [type |-> "callable", x_scaler_dict |-> EmptyDict, y_scaler_dict |-> EmptyDict]

\* Normalizer(x_scaler_dict, y_scaler_dict)
Normalizer(xd, yd) == [type |-> "Normalizer", x_scaler_dict |-> xd, y_scaler_dict |-> yd]

\* Normalizer.__call__(x, y): the matching transform per key; a key without an
\* entry is a KeyError
NormalizerCall(nz, x, y) ==
    IF ~(DOMAIN x \subseteq DOMAIN nz.x_scaler_dict /\ DOMAIN y \subseteq DOMAIN nz.y_scaler_dict)
    THEN [outcome |-> "KeyError", x |-> x, y |-> y]
    ELSE [outcome |-> "ok",
          x |-> [k \in DOMAIN x |-> ApplyFn(nz.x_scaler_dict[k], x[k])],
          y |-> [k \in DOMAIN y |-> ApplyFn(nz.y_scaler_dict[k], y[k])]]

\* the custom callable a caller may pass as normalization: it halves every
\* scaled-role value and keeps the others
CustomFn(k, v) ==
    LET h(w) == [num |-> w.num, den_sq |-> 4 * w.den_sq]
    IN  CASE k \in {X_OP_FEAT, Y_SUBGRAPH_FEAT} -> h(v)
          [] k \in {X_SUBGRAPH_FEAT, Y_OP_FEAT} -> [i \in DOMAIN v |-> h(v[i])]
          [] OTHER -> v

CustomCall(x, y) ==
    [outcome |-> "ok",
     x |-> [k \in DOMAIN x |-> CustomFn(k, x[k])],
     y |-> [k \in DOMAIN y |-> CustomFn(k, y[k])]]

---------------------------------------------------------------------------
(* MDataset and its variants *)

\* the normalization argument: a str or a callable object
Str(v) == [type |-> "str", value |-> v]
Callable == [type |-> "callable", value |-> "custom"]
DefaultNormalization == Str("standard")
Normalizations == {Str("Standard"), Str("MinMax"), DefaultNormalization, Callable}

\* MDataset._get_y_scaler_dict(labels, scaler_class)
\* outcome: "IndexError" (labels[0] of an empty list), "FitError" (a scaler
\* fitted on an empty pool), or "ok" with the dict
GetYScalerDict(labels, scaler_class) ==
    IF labels = << >> THEN [outcome |-> "IndexError", dict |-> EmptyDict]
    ELSE
    LET y_keys == DOMAIN labels[1]
        subgraph_feature == [i \in DOMAIN labels |-> labels[i][Y_SUBGRAPH_FEAT]]
        y_op_features == Concat([i \in DOMAIN labels |-> labels[i][Y_OP_FEAT]])
    IN  IF \/ Y_SUBGRAPH_FEAT \in y_keys /\ subgraph_feature = << >>
           \/ Y_OP_FEAT \in y_keys /\ y_op_features = << >>
        THEN [outcome |-> "FitError", dict |-> EmptyDict]
        ELSE [outcome |-> "ok",
              dict |-> [key \in y_keys |->
                  IF key \notin {Y_OP_FEAT, Y_SUBGRAPH_FEAT} THEN IdentityFn
                  ELSE IF key = Y_SUBGRAPH_FEAT
                       THEN ScalerFn(Fit(scaler_class, subgraph_feature))
                       ELSE MapFn(Fit(scaler_class, y_op_features))]]

\* SubgraphDataset._init_normalizer_impl(scaler_class): the value it returns
SubgraphInitNormalizerImpl(features, labels, scaler_class) ==
    IF features = << >> THEN [outcome |-> "IndexError", normalizer |-> None]
    ELSE
    LET x_keys == DOMAIN features[1]
        group_features == Concat([i \in DOMAIN features |-> features[i][X_SUBGRAPH_FEAT]])
        yd == GetYScalerDict(labels, scaler_class)
    IN  IF X_SUBGRAPH_FEAT \in x_keys /\ group_features = << >>
        THEN [outcome |-> "FitError", normalizer |-> None]
        ELSE IF yd.outcome # "ok" THEN [outcome |-> yd.outcome, normalizer |-> None]
        ELSE [outcome |-> "ok",
              normalizer |-> Normalizer(
                  [k \in x_keys |->
                      IF k # X_SUBGRAPH_FEAT THEN IdentityFn
                      ELSE MapFn(Fit(scaler_class, group_features))],
                  yd.dict)]

\* OPDataset._init_normalizer_impl(scaler_class): the value it returns.
\* Line 152 stores the fitted scaler under X_SUBGRAPH_FEAT.
OPInitNormalizerImpl(features, labels, scaler_class) ==
    IF features = << >> THEN [outcome |-> "IndexError", normalizer |-> None]
    ELSE
    LET x_keys == DOMAIN features[1]
        x_op_features == [i \in DOMAIN features |-> features[i][X_OP_FEAT]]
        stored == IF X_OP_FEAT \in x_keys THEN {X_SUBGRAPH_FEAT} ELSE {}
        yd == GetYScalerDict(labels, scaler_class)
    IN  IF yd.outcome # "ok" THEN [outcome |-> yd.outcome, normalizer |-> None]
        ELSE [outcome |-> "ok",
              normalizer |-> Normalizer(
                  [k \in (x_keys \ {X_OP_FEAT}) \cup stored |->
                      IF k \in stored THEN ScalerFn(Fit(scaler_class, x_op_features))
                      ELSE IdentityFn],
                  yd.dict)]

\* self._init_normalizer_impl(scaler_class), dispatched on the class
InitNormalizerImpl(cls, features, labels, scaler_class) ==
    IF cls = "OPDataset" THEN OPInitNormalizerImpl(features, labels, scaler_class)
    ELSE SubgraphInitNormalizerImpl(features, labels, scaler_class)

\* MDataset._init_normalizer(normalization): the call's outcome and the value
\* of _init_normalizer_impl, which the method does not keep
InitNormalizer(cls, features, labels, normalization) ==
    IF normalization = "Standard"
    THEN InitNormalizerImpl(cls, features, labels, "StandardScaler")
    ELSE IF normalization = "MinMax"
    THEN InitNormalizerImpl(cls, features, labels, "MinMaxScaler")
    ELSE [outcome |-> "InvalidNormalization", normalizer |-> None]

\* the object's attributes after __init__ assigned them
NewDataset(cls, key, features, labels, normalizer) ==
    [cls |-> cls, graphs_cache_key |-> key, features |-> features,
     labels |-> labels, normalizer |-> normalizer]

\* MDataset.__init__(graphs_cache_key, features, labels, normalization):
\* outcome "ok" with the object, or the exception raised
MDatasetInit(cls, key, features, labels, normalization) ==
    IF normalization.type = "str"
    THEN LET r == InitNormalizer(cls, features, labels, normalization.value)
         IN  [outcome |-> r.outcome,
              fitted  |-> r.normalizer,
              self    |-> NewDataset(cls, key, features, labels, None)]
    ELSE IF normalization.type = "callable"
    THEN [outcome |-> "ok", fitted |-> None,
          self |-> NewDataset(cls, key, features, labels, CustomCallable)]
    ELSE [outcome |-> "InvalidNormalization", fitted |-> None,
          self |-> NewDataset(cls, key, features, labels, None)]

\* MDataset.__len__
DatasetLen(d) == Len(d.features)

---------------------------------------------------------------------------
(* MDataset.__getitem__ *)

\* faulty variant of PyIndex: an index past the end is clamped to the last position
PyIndexClamped(n, index) ==
    IF 0 <= index /\ index < n THEN index + 1
    ELSE IF -n <= index /\ index < 0 THEN n + index + 1
    ELSE IF index >= n THEN n
    ELSE 0

\* a Python list subscript list[index] on a list of length n: the 1-based
\* position read, or 0 for an IndexError.  A negative index counts from the end.
PyIndex(n, index) ==
    IF 0 <= index /\ index < n THEN index + 1
    ELSE IF -n <= index /\ index < 0 THEN n + index + 1
    ELSE 0

NoItem == EmptyDict

\* calling self.normalizer (a Normalizer or the custom callable)
CallNormalizer(nz, x, y) ==
    IF nz.type = "callable" THEN CustomCall(x, y) ELSE NormalizerCall(nz, x, y)

\* faulty variant of GetItem: without a normalizer, item is the stored feature dict
\* itself (item = x), so item['label'] = y writes into features[index]
GetItemAliased(d, index) ==
    LET p == PyIndex(Len(d.features), index)
        q == PyIndex(Len(d.labels), index)
    IN  IF p = 0 \/ q = 0 THEN [outcome |-> "IndexError", item |-> NoItem, self |-> d]
        ELSE
        LET x == d.features[p]
            y == d.labels[q]
            r == IF d.normalizer.type # "None"
                 THEN CallNormalizer(d.normalizer, x, y)
                 ELSE [outcome |-> "ok", x |-> x, y |-> y]
        IN  IF r.outcome # "ok" THEN [outcome |-> r.outcome, item |-> NoItem, self |-> d]
            ELSE [outcome |-> "ok",
                  item |-> DictSet(r.x, "label", r.y),
                  self |-> IF d.normalizer.type = "None"
                           THEN [d EXCEPT !.features[p] = DictSet(x, "label", y)]
                           ELSE d]

\* MDataset.__getitem__(index): the outcome, the item returned and the
\* dataset object as the call leaves it
GetItem(d, index) ==
    LET p == PyIndex(Len(d.features), index)
        q == PyIndex(Len(d.labels), index)
    IN  IF p = 0 \/ q = 0 THEN [outcome |-> "IndexError", item |-> NoItem, self |-> d]
        ELSE
        LET x == d.features[p]
            y == d.labels[q]
            r == IF d.normalizer.type # "None"
                 THEN CallNormalizer(d.normalizer, x, y)
                 ELSE [outcome |-> "ok", x |-> x, y |-> y]
        IN  IF r.outcome # "ok" THEN [outcome |-> r.outcome, item |-> NoItem, self |-> d]
            ELSE [outcome |-> "ok",
                  item |-> DictSet([key \in DOMAIN r.x |-> r.x[key]], "label", r.y),
                  self |-> d]

\* the indices a reader may pass for a dataset of length n: every position,
\* its negative counterpart, and the first index beyond either end
Indices(n) == (-(n + 1))..n

---------------------------------------------------------------------------
(* DatasetFactory *)

DefaultSubgraphCount == 10
DefaultSubgraphNodeSize == 10

DatasetTypes == {"OP", "Grouping", "Subgraph"}
Splits == {"train", "val"}

\* the **kwargs a caller passes to create_dataset for a dataset kind
KwargsSet(dataset_type) ==
    IF dataset_type = "Subgraph" THEN {EmptyDict, ("subgraph_node_size" :> 1)}
    ELSE {EmptyDict}

\* kwargs.get(name, default): a keyword parameter with a default value
KwGet(kwargs, name, default) == IF name \in DOMAIN kwargs THEN kwargs[name] ELSE default

\* str(dummy) inside the f-string
BoolStr(b) == IF b THEN "True" ELSE "False"

\* DatasetFactory._graphs_cache_key
GraphsCacheKey(environment, train_or_val, dummy) ==
    environment \o "|" \o train_or_val \o "|" \o BoolStr(dummy)

\* the sum of a dict's values
RECURSIVE SumValues(_)
SumValues(d) ==
    IF DOMAIN d = {} THEN 0
    ELSE LET k == CHOOSE x \in DOMAIN d : TRUE
         IN  d[k] + SumValues([x \in DOMAIN d \ {k} |-> d[x]])

\* counter[k] += 1 on a history counter
Bump(d, k) == DictSet(d, k, KwGet(d, k, 0) + 1)

\* the body of DatasetFactory._load_graphs: a new list object
LoadGraphsBody(oid, dummy, seed) ==
    IF dummy
    THEN [id |-> oid, graphs |-> [i \in 1..DummyGraphCount |-> DummyGraph(i, seed)]]
    ELSE [id |-> oid, graphs |-> << >>]

\* DatasetFactory._load_graphs under lru_cache(maxsize=None): the body runs on
\* a miss only, and its result is kept for the argument tuple
LoadGraphs(lru, runs, environment, train_or_val, dummy, seed) ==
    LET t == <<environment, train_or_val, dummy>>
    IN  IF t \in DOMAIN lru
        THEN [lru |-> lru, runs |-> runs, result |-> lru[t]]
        ELSE LET g == LoadGraphsBody(SumValues(runs) + 1, dummy, seed)
             IN  [lru |-> DictSet(lru, t, g), runs |-> Bump(runs, t), result |-> g]

\* DatasetFactory.graphs_cache.get(key, default)
CacheGet(cache, key, default) == IF key \in DOMAIN cache THEN cache[key] ELSE default

\* lines 185-188 / 189-192: one split's graphs.  The default argument of
\* dict.get is evaluated before the lookup, so _load_graphs is called first.
FetchGraphs(cache, lru, runs, environment, train_or_val, dummy, seed) ==
    LET key == GraphsCacheKey(environment, train_or_val, dummy)
        ld == LoadGraphs(lru, runs, environment, train_or_val, dummy, seed)
        graphs == CacheGet(cache, key, ld.result)
    IN  [cache |-> DictSet(cache, key, graphs), lru |-> ld.lru, runs |-> ld.runs,
         called_when_cached |-> key \in DOMAIN cache]

\* the class each creator instantiates
DatasetClass(dataset_type) == IF dataset_type = "OP" THEN "OPDataset" ELSE "SubgraphDataset"

\* faulty variant of OpX: the graphs are walked from the last to the first
OpXLastFirst(graphs) ==
    Concat([i \in DOMAIN graphs |-> NodeX(graphs[Len(graphs) + 1 - i])])

\* _create_op_dataset lines 208-216: op_X and op_Y
OpX(graphs) == Concat([i \in DOMAIN graphs |-> NodeX(graphs[i])])
OpY(graphs) == Concat([i \in DOMAIN graphs |-> NodeY(graphs[i])])

\* the (X, Y) lists each creator extracts from the graphs of its cache key
ExtractX(dataset_type, graphs, kwargs) ==
    CASE dataset_type = "OP" -> OpX(graphs)
      [] dataset_type = "Grouping" ->
            [i \in DOMAIN graphs |->
                FullGraphX(graphs[i], KwGet(kwargs, "subgraph_count", DefaultSubgraphCount))]
      [] dataset_type = "Subgraph" ->
            Concat([i \in DOMAIN graphs |->
                SubgraphX(graphs[i], KwGet(kwargs, "subgraph_node_size", DefaultSubgraphNodeSize))])

ExtractY(dataset_type, graphs, kwargs) ==
    CASE dataset_type = "OP" -> OpY(graphs)
      [] dataset_type = "Grouping" ->
            [i \in DOMAIN graphs |->
                FullGraphY(graphs[i], KwGet(kwargs, "subgraph_count", DefaultSubgraphCount))]
      [] dataset_type = "Subgraph" ->
            Concat([i \in DOMAIN graphs |->
                SubgraphY(graphs[i], KwGet(kwargs, "subgraph_node_size", DefaultSubgraphNodeSize))])

\* the factory state a creator call reads and writes
FactoryState(lru, heap, runs, done, log) ==
    [lru |-> lru, heap |-> heap, runs |-> runs, done |-> done, log |-> log]

\* the body of _create_op_dataset / _create_graph_grouping_dataset /
\* _create_subgraph_dataset: extraction, then the dataset's construction
CreatorBody(F, dataset_type, key, normalization, kwargs, cache) ==
    LET t == <<dataset_type, key, normalization, kwargs>>
        cls == DatasetClass(dataset_type)
        Construct(X, Y) ==
            Bind(MDatasetInit(cls, key, X, Y, normalization), LAMBDA c :
                LET entry == [cls |-> cls, normalization |-> normalization,
                              nfeatures |-> Len(X), outcome |-> c.outcome]
                IN  IF c.outcome = "ok"
                    THEN [F |-> FactoryState(F.lru, Append(F.heap, c.self), Bump(F.runs, t),
                                             Bump(F.done, t), F.log \cup {entry}),
                          outcome |-> "ok", id |-> Len(F.heap) + 1]
                    ELSE [F |-> FactoryState(F.lru, F.heap, Bump(F.runs, t), F.done,
                                             F.log \cup {entry}),
                          outcome |-> c.outcome, id |-> 0])
    IN  Bind(cache[key].graphs, LAMBDA graphs :
            Bind(ExtractX(dataset_type, graphs, kwargs), LAMBDA X :
                Bind(ExtractY(dataset_type, graphs, kwargs), LAMBDA Y : Construct(X, Y))))

\* faulty variant of Creator: the creator without its lru_cache
CreatorUncached(F, dataset_type, key, normalization, kwargs, cache) ==
    Bind(CreatorBody(F, dataset_type, key, normalization, kwargs, cache), LAMBDA b : b)

\* a creator under lru_cache(maxsize=None): a hit returns the cached dataset;
\* a miss runs the body and keeps its result, unless the body raised
Creator(F, dataset_type, key, normalization, kwargs, cache) ==
    LET t == <<dataset_type, key, normalization, kwargs>>
    IN  IF t \in DOMAIN F.lru
        THEN [F |-> F, outcome |-> "ok", id |-> F.lru[t]]
        ELSE Bind(CreatorBody(F, dataset_type, key, normalization, kwargs, cache), LAMBDA b :
                 IF b.outcome = "ok"
                 THEN [F |-> [b.F EXCEPT !.lru = DictSet(b.F.lru, t, b.id)],
                       outcome |-> "ok", id |-> b.id]
                 ELSE b)

CallArgs(environment, normalization, dataset_type, dummy, kwargs) ==
    [environment |-> environment, normalization |-> normalization,
     dataset_type |-> dataset_type, dummy |-> dummy, kwargs |-> kwargs]


\* DatasetFactory.create_dataset(environment, normalization, dataset_type, dummy, **kwargs)
CreateDataset(environment, normalization, dataset_type, dummy, kwargs) ==
    /\ ncalls < MaxCalls
    /\ \E seedT \in DummySeeds, seedV \in DummySeeds :
       \E gt \in {FetchGraphs(graphs_cache, load_graphs_lru, load_body_runs,
                              environment, "train", dummy, seedT)} :
       \E gv \in {FetchGraphs(gt.cache, gt.lru, gt.runs, environment, "val", dummy, seedV)} :
       \E tr \in {Creator(FactoryState(creator_lru, datasets, creator_body_runs,
                                       creator_body_done, inits),
                          dataset_type, GraphsCacheKey(environment, "train", dummy),
                          normalization, kwargs, gv.cache)} :
       \E va \in {IF tr.outcome = "ok"
                  THEN Creator(tr.F, dataset_type, GraphsCacheKey(environment, "val", dummy),
                               normalization, kwargs, gv.cache)
                  ELSE tr} :
       \E args \in {CallArgs(environment, normalization, dataset_type, dummy, kwargs)} :
            /\ graphs_cache' = gv.cache
            /\ load_graphs_lru' = gv.lru
            /\ load_body_runs' = gv.runs
            /\ load_when_cached' =
                   (load_when_cached \/ gt.called_when_cached \/ gv.called_when_cached)
            /\ creator_lru' = va.F.lru
            /\ datasets' = va.F.heap
            /\ built' = built \o SubSeq(va.F.heap, Len(datasets) + 1, Len(va.F.heap))
            /\ creator_body_runs' = va.F.runs
            /\ creator_body_done' = va.F.done
            /\ inits' = va.F.log
            /\ returns' = IF va.outcome = "ok"
                          THEN returns \cup {[args |-> args, train |-> tr.id, val |-> va.id]}
                          ELSE returns
    /\ ncalls' = ncalls + 1
    /\ UNCHANGED readerVars

---------------------------------------------------------------------------
(* MDataset.data_collator *)

\* faulty variant of AppendAll: batch[k].insert(0, v) instead of append
AppendAllFront(container, keys, sample) ==
    [k \in DOMAIN container \cup keys |->
        IF k \in keys
        THEN <<sample[k]>> \o (IF k \in DOMAIN container THEN container[k] ELSE << >>)
        ELSE container[k]]

\* batch.setdefault(k, list()); batch[k].append(v) for every key of `keys`
AppendAll(container, keys, sample) ==
    [k \in DOMAIN container \cup keys |->
        IF k \in keys
        THEN Append(IF k \in DOMAIN container THEN container[k] ELSE << >>, sample[k])
        ELSE container[k]]

\* lines 72-80: one sample's items added to the batch
AddSample(b, sample) ==
    LET feats == DOMAIN sample \ {"label"}
        b1 == AppendAll(b, feats, sample)
    IN  IF "label" \notin DOMAIN sample THEN b1
        ELSE DictSet(b1, "labels",
                     AppendAll(IF "labels" \in DOMAIN b THEN b["labels"] ELSE EmptyDict,
                               DOMAIN sample["label"], sample["label"]))

\* lines 70-80: the loop over the samples
RECURSIVE Gather(_, _)
Gather(b, ss) == IF ss = << >> THEN b ELSE Gather(AddSample(b, ss[1]), Tail(ss))

\* the keys whose values are lists of vectors
ListValued(k) == k \in {X_SUBGRAPH_FEAT, Y_OP_FEAT}

\* np.array(v_) refuses a list whose entries are lists of different lengths
Ragged(k, v) == ListValued(k) /\ \E i \in DOMAIN v, j \in DOMAIN v : Len(v[i]) # Len(v[j])

\* lines 87-91: one leaf container converted
Leaf(k, v) == [kind |-> IF EndsWithFeatSuffix(k) THEN "tensor" ELSE "ndarray", data |-> v]

\* make_tensor(d) on a dict of leaf containers
MakeTensorLeaves(d) == [k \in DOMAIN d |-> Leaf(k, d[k])]

\* make_tensor(batch): the nested label dict is converted recursively
MakeTensor(b) ==
    [k \in DOMAIN b |-> IF k = "labels" THEN MakeTensorLeaves(b[k]) ELSE Leaf(k, b[k])]

NoBatch == [outcome |-> "none", input |-> << >>, batch |-> EmptyDict]

\* MDataset.data_collator(samples): the outcome and the batch returned
DataCollator(ss) ==
    IF /\ \E i \in DOMAIN ss : "labels" \in DOMAIN ss[i]
       /\ \E i \in DOMAIN ss : "label" \in DOMAIN ss[i]
    THEN [outcome |-> "AttributeError", input |-> ss, batch |-> EmptyDict]
    ELSE Bind(Gather(EmptyDict, ss), LAMBDA b :
        IF \/ \E k \in DOMAIN b \ {"labels"} : Ragged(k, b[k])
           \/ "labels" \in DOMAIN b /\ \E k \in DOMAIN b["labels"] : Ragged(k, b["labels"][k])
        THEN [outcome |-> "ValueError", input |-> ss, batch |-> EmptyDict]
        ELSE [outcome |-> "ok", input |-> ss, batch |-> MakeTensor(b)])

NoGet == [ds |-> 0, index |-> 0, outcome |-> "none", item |-> NoItem]

\* a reader calls dataset[index]; an item returned is kept for the next batch
\* while the batch has room
Get(d, index) ==
    /\ \E r \in {GetItem(datasets[d], index)} :
        /\ lastGet' = [ds |-> d, index |-> index, outcome |-> r.outcome, item |-> r.item]
        /\ datasets' = [datasets EXCEPT ![d] = r.self]
        /\ samples' = IF r.outcome = "ok" /\ Len(samples) < MaxBatch
                      THEN Append(samples, r.item)
                      ELSE samples
    /\ UNCHANGED <<graphs_cache, load_graphs_lru, creator_lru, built, ncalls,
                   load_body_runs, load_when_cached, creator_body_runs,
                   creator_body_done, inits, returns, batch>>

\* the gathered samples are collated into a batch
Collate ==
    /\ samples # << >>
    /\ batch' = DataCollator(samples)
    /\ UNCHANGED <<factoryVars, lastGet, samples>>

\* the state before any call
Init ==
    /\ graphs_cache = EmptyDict
    /\ load_graphs_lru = EmptyDict
    /\ creator_lru = EmptyDict
    /\ datasets = << >>
    /\ built = << >>
    /\ ncalls = 0
    /\ load_body_runs = EmptyDict
    /\ load_when_cached = FALSE
    /\ creator_body_runs = EmptyDict
    /\ creator_body_done = EmptyDict
    /\ inits = {}
    /\ returns = {}
    /\ lastGet = NoGet
    /\ samples = << >>
    /\ batch = NoBatch

Next ==
    \E e \in Envs, nz \in Normalizations, ty \in DatasetTypes,
          dm \in BOOLEAN :
          \E kw \in KwargsSet(ty) : CreateDataset(e, nz, ty, dm, kw)

Spec == Init /\ [][Next]_vars

\* the datasets a program may construct from one loaded graph list
DirectDatasets ==
    {c.self : c \in {r \in
        {MDatasetInit(DatasetClass(ty), GraphsCacheKey(e, "train", dm),
                      ExtractX(ty, LoadGraphsBody(1, dm, seed).graphs, kw),
                      ExtractY(ty, LoadGraphsBody(1, dm, seed).graphs, kw), nz) :
            ty \in DatasetTypes, e \in Envs, dm \in BOOLEAN, seed \in DummySeeds,
            kw \in UNION {KwargsSet(t) : t \in DatasetTypes},
            nz \in Normalizations} : r.outcome = "ok"}}

\* one dataset has been constructed; no batch has been collated yet
InitReaders ==
    /\ \E d \in DirectDatasets : datasets = <<d>> /\ built = <<d>>
    /\ graphs_cache = EmptyDict
    /\ load_graphs_lru = EmptyDict
    /\ creator_lru = EmptyDict
    /\ ncalls = 0
    /\ load_body_runs = EmptyDict
    /\ load_when_cached = FALSE
    /\ creator_body_runs = EmptyDict
    /\ creator_body_done = EmptyDict
    /\ inits = {}
    /\ returns = {}
    /\ lastGet = NoGet
    /\ samples = << >>
    /\ batch = NoBatch

NextReaders ==
    \/ \E d \in DOMAIN datasets : \E i \in Indices(DatasetLen(datasets[d])) : Get(d, i)
    \/ Collate

SpecReaders == InitReaders /\ [][NextReaders]_vars

---------------------------------------------------------------------------
(* The claims *)

\* the datasets the factory built with a named normalization mode, each with
\* the arguments of its creator call
NamedBuilds == {t \in DOMAIN creator_lru : t[3].type = "str"}

\* the scaler class a mode name selects (line 32-35)
ScalerClassOf(mode) == IF mode = "Standard" THEN "StandardScaler" ELSE "MinMaxScaler"

\* the item the claim expects of get(i): the fitted Normalizer applied to the
\* raw pair, the label dict under the reserved key
NormalizedItem(nz, x, y) ==
    DictSet([k \in DOMAIN x |-> ApplyFn(nz.x_scaler_dict[k], x[k])], "label",
            [k \in DOMAIN y |-> ApplyFn(nz.y_scaler_dict[k], y[k])])

\* C1: a dataset built with a named normalization mode has the Normalizer
\* fitted at construction attached (not None), and get(i) returns, for every
\* valid index i, the raw pair (features[i], labels[i]) normalized by it: every
\* feature key with its normalized value, the normalized labels under "label".
C1_GetAppliesFittedNormalizer ==
    \A t \in NamedBuilds :
        LET d == datasets[creator_lru[t]]
            fitted == InitNormalizerImpl(d.cls, d.features, d.labels,
                                         ScalerClassOf(t[3].value)).normalizer
        IN  /\ d.normalizer.type = "Normalizer"
            /\ d.normalizer = fitted
            /\ \A i \in 0..(DatasetLen(d) - 1) :
                /\ GetItem(d, i).outcome = "ok"
                /\ DOMAIN d.features[i + 1] \subseteq DOMAIN fitted.x_scaler_dict
                /\ GetItem(d, i).item = NormalizedItem(fitted, d.features[i + 1], d.labels[i + 1])

\* C2 (as claimed): two create_dataset calls with the same arguments return the
\* same train and the same validation dataset, and the body of a construction
\* routine runs at most once per (graphs_cache_key, normalization, params).
C2_BodyRunsAtMostOnce ==
    /\ \A r1 \in returns, r2 \in returns :
          r1.args = r2.args => r1.train = r2.train /\ r1.val = r2.val
    /\ \A t \in DOMAIN creator_body_runs : creator_body_runs[t] <= 1

\* C2 (amended): two create_dataset calls with the same arguments that return,
\* return the same train and the same validation dataset; a construction
\* routine's body that returns a dataset has run exactly once for its tuple,
\* and only a tuple whose construction raises has its body run again.
C2_SuccessfulBodyRunsOnce ==
    /\ \A r1 \in returns, r2 \in returns :
          r1.args = r2.args => r1.train = r2.train /\ r1.val = r2.val
    /\ \A t \in DOMAIN creator_body_runs :
          /\ KwGet(creator_body_done, t, 0) <= 1
          /\ KwGet(creator_body_done, t, 0) = 1 => creator_body_runs[t] = 1
          /\ t \in DOMAIN creator_lru <=> KwGet(creator_body_done, t, 0) = 1
    /\ \A t \in DOMAIN creator_lru : creator_lru[t] \in DOMAIN datasets

\* C2 witness: a second call with the arguments of the first has returned; it
\* ran no body (two bodies ran in all: train and validation of the first call).
C2_RepeatedCallReturned ==
    /\ ncalls = 2
    /\ Cardinality(returns) = 1
    /\ SumValues(creator_body_runs) = 2
    /\ \A e \in inits : e.outcome = "ok"

\* C3: the graph list of an (environment, split, dummy) triple is computed at
\* most once; create_dataset invokes the Graph Loader only when the key is
\* absent from the Graphs Cache; the cached value of a key is the list computed
\* for its triple.
C3_LoaderOnlyWhenAbsent ==
    /\ ~load_when_cached
    /\ \A t \in DOMAIN load_body_runs : load_body_runs[t] <= 1
    /\ \A t \in DOMAIN load_graphs_lru :
          LET key == GraphsCacheKey(t[1], t[2], t[3])
          IN  key \in DOMAIN graphs_cache => graphs_cache[key] = load_graphs_lru[t]

\* C4: for N >= 1 samples sharing their key sets, data_collator returns a batch
\* where every non-label key maps to N entries, the j-th being sample j's value;
\* the label keys appear only inside the one nested label dict, each with N
\* entries in input order, and never at the top level.
C4_CollatorInvariant ==
    batch.outcome # "none" =>
        LET ss == batch.input
            b == batch.batch
            feats == DOMAIN ss[1] \ {"label"}
            labs == DOMAIN ss[1]["label"]
        IN  /\ batch.outcome = "ok"
            /\ DOMAIN b = feats \cup {"labels"}
            /\ \A k \in feats :
                /\ Len(b[k].data) = Len(ss)
                /\ \A j \in DOMAIN ss : b[k].data[j] = ss[j][k]
            /\ labs \cap DOMAIN b = {}
            /\ DOMAIN b["labels"] = labs
            /\ \A k \in labs :
                /\ Len(b["labels"][k].data) = Len(ss)
                /\ \A j \in DOMAIN ss : b["labels"][k].data[j] = ss[j]["label"][k]

\* C4 witness: a batch of two different samples has been collated
C4_TwoSamplesCollated ==
    /\ batch.outcome = "ok"
    /\ Len(batch.input) = 2
    /\ batch.input[1] # batch.input[2]

\* the item get returns for the sample at 1-based position p
ItemAt(d, p) ==
    LET x == d.features[p]
        y == d.labels[p]
    IN  IF d.normalizer.type = "None" THEN DictSet(x, "label", y)
        ELSE DictSet([k \in DOMAIN x |-> CustomFn(k, x[k])], "label",
                     [k \in DOMAIN y |-> CustomFn(k, y[k])])

\* C5 (as claimed): get(i) succeeds for every i with 0 <= i < n, and fails
\* with an out-of-range error for every other index.
C5_OnlyZeroToNValid ==
    lastGet.outcome # "none" =>
        LET n == DatasetLen(built[lastGet.ds])
            i == lastGet.index
        IN  IF 0 <= i /\ i < n
            THEN lastGet.outcome = "ok"
            ELSE lastGet.outcome = "IndexError"

\* C5 (amended): get(i) succeeds for every i with -n <= i < n, returning the
\* sample at position i (at position n + i for a negative i), and fails with an
\* out-of-range error for every i >= n and every i < -n.
C5_PythonIndexRange ==
    lastGet.outcome # "none" =>
        LET d == built[lastGet.ds]
            n == DatasetLen(d)
            i == lastGet.index
        IN  /\ (0 <= i /\ i < n) => lastGet.outcome = "ok" /\ lastGet.item = ItemAt(d, i + 1)
            /\ (-n <= i /\ i < 0) => lastGet.outcome = "ok" /\ lastGet.item = ItemAt(d, n + i + 1)
            /\ (i >= n \/ i < -n) => lastGet.outcome = "IndexError" /\ lastGet.item = NoItem

\* C5 witness: on a dataset of at least two different samples, get(-1) has
\* returned the last sample
C5_NegativeIndexRead ==
    /\ lastGet.outcome = "ok"
    /\ lastGet.index = -1
    /\ DatasetLen(built[lastGet.ds]) >= 2
    /\ lastGet.item = ItemAt(built[lastGet.ds], DatasetLen(built[lastGet.ds]))
    /\ lastGet.item # ItemAt(built[lastGet.ds], 1)

\* C6: constructing a dataset with a string normalization does not raise the
\* invalid-argument error for the two supported mode names, "standard" (the
\* constructor's default) and "MinMax", and raises it for every other string.
C6_SupportedModeNames ==
    \A e \in inits :
        e.normalization.type = "str" =>
            /\ e.normalization = DefaultNormalization => e.outcome # "InvalidNormalization"
            /\ e.normalization.value \in {"standard", "MinMax"}
                   <=> e.outcome # "InvalidNormalization"

\* C7: for a create_dataset call with a named mode, the train and validation
\* datasets returned are distinct instances, each carrying a Normalizer fitted
\* on its own split's samples.
C7_OwnFittedNormalizer ==
    \A r \in returns :
        r.args.normalization.type = "str" =>
            LET tr == datasets[r.train]
                va == datasets[r.val]
                sc == ScalerClassOf(r.args.normalization.value)
            IN  /\ r.train # r.val
                /\ va.normalizer.type = "Normalizer"
                /\ va.normalizer = InitNormalizerImpl(va.cls, va.features, va.labels, sc).normalizer
                /\ tr.normalizer.type = "Normalizer"
                /\ tr.normalizer = InitNormalizerImpl(tr.cls, tr.features, tr.labels, sc).normalizer

\* C8: get(i) calls, in any number and order, leave the dataset as it was
\* constructed (features, labels, their dicts, the normalizer), so each item
\* returned is the item get(i) returns on the dataset as constructed.
C8_GetLeavesDatasetUnchanged ==
    /\ datasets = built
    /\ lastGet.outcome # "none" =>
          /\ lastGet.outcome = GetItem(built[lastGet.ds], lastGet.index).outcome
          /\ lastGet.item = GetItem(built[lastGet.ds], lastGet.index).item
    /\ \A j \in DOMAIN samples :
          \E i \in Indices(DatasetLen(built[1])) :
              /\ GetItem(built[1], i).outcome = "ok"
              /\ GetItem(built[1], i).item = samples[j]

\* C8 witness: two get calls have returned their items, the second after the
\* first and for another index
C8_TwoGetsReturned ==
    /\ Len(samples) >= 2
    /\ samples[1] # samples[2]
    /\ lastGet.outcome = "ok"

\* the number of (feature, label) pairs the per-operator extraction yields
OpCount(g) == Len(NodeX(g))

\* the number of samples of the graphs before the j-th
RECURSIVE OpOffset(_, _)
OpOffset(graphs, j) == IF j = 1 THEN 0 ELSE OpOffset(graphs, j - 1) + OpCount(graphs[j - 1])

\* the operator datasets the factory built, each with its creator's arguments
OpBuilds == {t \in DOMAIN creator_lru : t[1] = "OP"}

\* C9: the operator dataset built from graphs g1..gk yielding c1..ck pairs has
\* length c1 + ... + ck, features and labels of equal length, and the samples
\* of gj at the contiguous indices after those of g1..g(j-1), in extraction order.
C9_OpDatasetFlattening ==
    \A t \in OpBuilds :
        LET d == datasets[creator_lru[t]]
            graphs == graphs_cache[t[2]].graphs
            k == Len(graphs)
        IN  /\ d.cls = "OPDataset"
            /\ DatasetLen(d) = OpOffset(graphs, k + 1)
            /\ Len(d.labels) = Len(d.features)
            /\ \A j \in 1..k : \A i \in 1..OpCount(graphs[j]) :
                /\ d.features[OpOffset(graphs, j) + i] = NodeX(graphs[j])[i]
                /\ d.labels[OpOffset(graphs, j) + i] = NodeY(graphs[j])[i]

\* C9 witness: an operator dataset built from two graphs yielding different,
\* non-zero numbers of samples
C9_TwoGraphsFlattened ==
    \E t \in OpBuilds :
        LET graphs == graphs_cache[t[2]].graphs
        IN  /\ Len(graphs) >= 2
            /\ OpCount(graphs[1]) >= 1
            /\ OpCount(graphs[2]) >= 1
            /\ OpCount(graphs[1]) # OpCount(graphs[2])
            /\ DatasetLen(datasets[creator_lru[t]]) = OpCount(graphs[1]) + OpCount(graphs[2])

\* C10: for both variants, the Normalizer the scaler-building routine returns
\* has a feature entry for every key of the feature dicts, the variant's scaled
\* key included under that same key, and a label entry for every label key, so
\* normalizing a sample of the dataset meets no missing key.
C10_ScalerKeysCovered ==
    \A d \in Range(datasets) : \A sc \in {"StandardScaler", "MinMaxScaler"} :
        LET r == InitNormalizerImpl(d.cls, d.features, d.labels, sc)
            scaled == IF d.cls = "OPDataset" THEN X_OP_FEAT ELSE X_SUBGRAPH_FEAT
        IN  r.outcome = "ok" =>
                \A i \in DOMAIN d.features :
                    /\ DOMAIN d.features[i] \subseteq DOMAIN r.normalizer.x_scaler_dict
                    /\ DOMAIN d.labels[i] \subseteq DOMAIN r.normalizer.y_scaler_dict
                    /\ scaled \in DOMAIN d.features[i] =>
                           /\ scaled \in DOMAIN r.normalizer.x_scaler_dict
                           /\ r.normalizer.x_scaler_dict[scaled].kind # "identity"
                    /\ NormalizerCall(r.normalizer, d.features[i], d.labels[i]).outcome = "ok"

=============================================================================
